---- MODULE Spec2Model ----
(***************************************************************************)
(* A model of patchstorage (src/main.rs): the paginated catalog reader,    *)
(* the retrying transport, the per-entry materializer and the SysEx frame  *)
(* extractor.                                                              *)
(*                                                                         *)
(* Strings are sequences of tokens: a token is either "." or a non-empty   *)
(* dot-free piece of text, so that the file name operations of std::path   *)
(* (extension, file_stem, set_extension) are computed and not assumed.     *)
(* Byte buffers are sequences of integers in 0..255.                       *)
(*                                                                         *)
(* A definition named X_suffix right before a definition X is X with a     *)
(* slip in it; the properties are checked to tell the two apart.           *)
(***************************************************************************)
EXTENDS Integers, Sequences, FiniteSets, TLC

VARIABLES
    \* ---- the run of main() ----
    overwrite,   \* args.overwrite
    platform,    \* args.platform
    fs,          \* the output directory: file name -> content, or NoFile
    pc,          \* position of main()
    page,        \* request.page of the pager's pending GetPatchesRequest
    more,        \* the pager still has a page to turn
    patches,     \* entries of the current batch not yet taken by the for loop
    cur,         \* the entry being processed (or just processed)
    attempt,     \* n_past_retries of the request in flight
    result,      \* what the transport handed back for the last request
    requested,   \* history: page numbers of the list requests issued
    turned,      \* history: the pages turned, with their continuation flag
                 \* and whether the server advertised rel="next"
    error,       \* the error main() returned, when it did
    \* ---- the pure functions, applied on their own ----
    input,       \* a buffer handed to sysex_filter
    output,      \* sysex_filter(input)
    reoutput,    \* sysex_filter applied to its own output
    fpc,         \* "start", "filtered", "refiltered"
    fname,       \* a file name handed to has_extension
    fext,        \* the extension handed to has_extension
    matches,     \* has_extension(fname, fext)
    hpc          \* "start", "done"

mainVars == <<overwrite, platform, fs, pc, page, more, patches, cur, attempt,
              result, requested, turned, error>>
filterVars == <<input, output, reoutput, fpc>>
extVars == <<fname, fext, matches, hpc>>
vars == <<overwrite, platform, fs, pc, page, more, patches, cur, attempt,
          result, requested, turned, error, input, output, reoutput, fpc,
          fname, fext, matches, hpc>>

(***************************************************************************)
(* Option<T>                                                               *)
(***************************************************************************)
None == [some |-> FALSE, val |-> <<>>]
Some(v) == [some |-> TRUE, val |-> v]

(***************************************************************************)
(* sysex_filter                                                            *)
(***************************************************************************)
SYSEX_START == 240
SYSEX_END == 247

\* |x| *x >= 0xF0
IsSystemMessage(x) == x >= SYSEX_START

\* |x| *x == 0xF7
IsSysexEnd(x) == x = SYSEX_END

\* the values of a u8, and those a closure accepts
U8 == 0..255
SystemMessages == {x \in U8 : IsSystemMessage(x)}
SysexEnds == {x \in U8 : IsSysexEnd(x)}

\* Iterator::position on an iterator that has already consumed `consumed`
\* elements of buf: the number of elements skipped before the first one
\* that the closure accepts, or -1 when the iterator runs out.
NoPosition == -1
Position(buf, consumed, accepted) ==
    LET hits == {k \in 0..(Len(buf) - consumed - 1) :
                    buf[consumed + k + 1] \in accepted}
    IN  IF hits = {} THEN NoPosition
        ELSE CHOOSE k \in hits : \A j \in hits : k <= j

\* let end = start + last + 2;
FrameEnd_short(start, last) == start + last + 1
FrameEnd(start, last) == start + last + 2

\* (start, end) == (0, buf.len())
IsUnchanged_never(start, end, len) == FALSE
IsUnchanged_offByOne(start, end, len) == start = 0 /\ end = len - 1
IsUnchanged(start, end, len) == start = 0 /\ end = len

\* buf[start] != 0xF0
IsUnsupported_lax(byte) == byte < SYSEX_START
IsUnsupported(byte) == byte # SYSEX_START

\* &buf[start..end], with 0-based half-open bounds
Slice_fromStart(buf, start, end) == SubSeq(buf, 1, end)
Slice(buf, start, end) == SubSeq(buf, start + 1, end)

sysex_filter_passthrough(buf) ==
    LET start == Position(buf, 0, SystemMessages)
    IN  IF start = NoPosition THEN (IF buf = <<>> THEN None ELSE Some(buf))
        ELSE IF IsUnsupported(buf[start + 1]) THEN None
        ELSE LET last == Position(buf, start + 1, SysexEnds)
             IN  IF last = NoPosition THEN None
                 ELSE LET end == FrameEnd(start, last)
                      IN  IF IsUnchanged(start, end, Len(buf)) THEN None
                          ELSE Some(Slice(buf, start, end))

sysex_filter(buf) ==
    LET start == Position(buf, 0, SystemMessages)
    IN  IF start = NoPosition THEN None
        ELSE IF IsUnsupported(buf[start + 1]) THEN None
        ELSE LET last == Position(buf, start + 1, SysexEnds)
             IN  IF last = NoPosition THEN None
                 ELSE LET end == FrameEnd(start, last)
                      IN  IF IsUnchanged(start, end, Len(buf)) THEN None
                          ELSE Some(Slice(buf, start, end))

(***************************************************************************)
(* std::path on file names (no directory separators occur in the names)    *)
(***************************************************************************)
DOT == "."

LastDot_first(name) ==
    LET dots == {i \in 1..Len(name) : name[i] = DOT}
    IN  IF dots = {} THEN 0 ELSE CHOOSE i \in dots : \A j \in dots : i <= j
LastDot(name) ==
    LET dots == {i \in 1..Len(name) : name[i] = DOT}
    IN  IF dots = {} THEN 0 ELSE CHOOSE i \in dots : \A j \in dots : j <= i

\* Path::file_name: None for the empty path and for ".."
file_name(name) ==
    IF name = <<>> \/ name = <<DOT, DOT>> THEN None ELSE Some(name)

\* rsplit_file_at_dot: (before, after) around the last dot; a name with no
\* dot, or whose only dot is its first character, has no extension
rsplit_file_at_dot(name) ==
    LET d == LastDot(name)
    IN  IF d = 0 \/ d = 1
        THEN [before |-> Some(name), after |-> None]
        ELSE [before |-> Some(SubSeq(name, 1, d - 1)),
              after  |-> Some(SubSeq(name, d + 1, Len(name)))]

\* Path::extension
extension_of(name) ==
    IF file_name(name).some THEN rsplit_file_at_dot(name).after ELSE None

\* Path::file_stem
file_stem(name) ==
    IF file_name(name).some THEN rsplit_file_at_dot(name).before ELSE None

\* PathBuf::set_extension: the name is cut back to its stem, then "." and
\* the new extension are appended
set_extension(name, ext) ==
    IF ~file_stem(name).some THEN name
    ELSE IF ext = <<>> THEN file_stem(name).val
    ELSE file_stem(name).val \o <<DOT>> \o ext

\* fn has_extension(filename, extension)
has_extension_any(filename, ext) == extension_of(filename).some
has_extension(filename, ext) == extension_of(filename) = Some(ext)

\* args.output_dir.join(&patch.slug), then set_extension(extension); the
\* output directory is the same for every entry and is left out of the name
target_filename(slug, ext) == set_extension(slug, ext)

(***************************************************************************)
(* Args and the platform table                                             *)
(***************************************************************************)
Platforms == {"EventideH90", "MerisEnzoX", "MerisLvx", "MerisMercuryX",
              "Mozaic", "Zoia"}

PlatformTable(p) ==
    CASE p = "EventideH90"   -> [id |-> 8271,  ext |-> <<"pgm90">>]
      [] p = "MerisEnzoX"    -> [id |-> 10559, ext |-> <<"syx">>]
      [] p = "MerisLvx"      -> [id |-> 8008,  ext |-> <<"syx">>]
      [] p = "MerisMercuryX" -> [id |-> 9190,  ext |-> <<"syx">>]
      [] p = "Mozaic"        -> [id |-> 3341,  ext |-> <<"mozaic">>]
      [] p = "Zoia"          -> [id |-> 3003,  ext |-> <<"bin">>]

extension == PlatformTable(platform).ext

\* the platforms the runs are started with: the default one (SysEx) and one
\* whose container is not SysEx
RunPlatforms == {"MerisLvx", "Zoia"}

(***************************************************************************)
(* Result<T>                                                               *)
(***************************************************************************)
Ok(v) == [ok |-> TRUE, val |-> v]
Err(e) == [ok |-> FALSE, val |-> e]

(***************************************************************************)
(* Bounds of the runs                                                      *)
(***************************************************************************)
MaxPages == 2      \* the catalog advertises rel="next" on pages below this
MaxEntries == 2    \* entries in one page of the catalog
MaxBufLen == 5     \* length of the buffers sysex_filter is applied to alone
MaxNameLen == 5    \* tokens of the file names has_extension is applied to alone

SeqsUpTo(S, n) == UNION {[1..k -> S] : k \in 0..n}

(***************************************************************************)
(* What the server can answer                                              *)
(***************************************************************************)
\* struct Patch { id, slug }; an id that is no unsigned integer is -1
Slugs == {<<"patch-a">>, <<"patch-b">>, <<"patch-a", DOT, "v2">>}
Patches == {[id |-> 7, slug |-> <<"patch-a">>],
            [id |-> 8, slug |-> <<"patch-b">>],
            [id |-> 9, slug |-> <<"patch-a", DOT, "v2">>],
            [id |-> -1, slug |-> <<"patch-b">>]}

\* A response body as the caller can decode it: the decoded value, or
\* nothing when the body is not the JSON the caller expects. The bytes of an
\* asset always decode.
Body(v) == [decodable |-> TRUE, val |-> v]
Undecodable == [decodable |-> FALSE, val |-> <<>>]
ListBodies == {Body(b) : b \in SeqsUpTo(Patches, MaxEntries)}

\* The Link header: absent, or a value that is a list of link-values. A
\* link-value is named by its rel; "bad" is a link-value that does not
\* parse. ascii is whether HeaderValue::to_str accepts the value.
NoHeader == [present |-> FALSE, ascii |-> TRUE, links |-> <<>>]
Link(links) == [present |-> TRUE, ascii |-> TRUE, links |-> links]
OpaqueLink(links) == [present |-> TRUE, ascii |-> FALSE, links |-> links]
LinkHeaders == {NoHeader, Link(<<"next">>), Link(<<"prev">>),
                Link(<<"prev", "next">>), Link(<<"bad">>),
                Link(<<"next", "bad">>), OpaqueLink(<<"next">>)}
AdvertisesNext(link) == \E i \in 1..Len(link.links) : link.links[i] = "next"

\* struct PatchMetaData { files: Vec<PatchFile>, .. }, PatchFile { url, filename, .. }
FileSyx == [filename |-> <<"patch", DOT, "syx">>, url |-> "url-syx"]
FileBin == [filename |-> <<"patch", DOT, "bin">>, url |-> "url-bin"]
\* a decoded PatchMetaData is its files
MetaBodies == {Body(f) :
                 f \in {<<>>, <<FileSyx>>, <<FileBin>>, <<FileBin, FileSyx>>}}

AssetBytes == {<<>>, <<240, 247>>, <<1, 240, 2, 247, 3>>, <<248, 240, 2, 247>>}
AssetBodies == {Body(b) : b \in AssetBytes}

\* What one attempt of a request ends in: a network error, or a response
\* (to names the request it answers: "list", "detail" or "asset")
NetworkError(to) ==
    [to |-> to, kind |-> "error", status |-> 0, link |-> NoHeader,
     body |-> Undecodable]
Response(to, status, link, body) ==
    [to |-> to, kind |-> "response", status |-> status, link |-> link,
     body |-> body]
NoResult ==
    [to |-> "", kind |-> "none", status |-> 0, link |-> NoHeader,
     body |-> Undecodable]

\* The statuses of the error responses. The body of an error response is
\* the server's error document: it does not decode as an entry list or as
\* metadata, and as an asset it is bytes like any other.
ErrorStatuses == {404, 429, 500}

ListResponses ==
    {Response("list", 200, l, b) : l \in {Link(<<"next">>), Link(<<"prev">>)},
                           b \in ListBodies \cup {Undecodable}}
    \cup {Response("list", 200, l, b) :
            l \in LinkHeaders,
            b \in {Undecodable, Body(<<>>),
                   Body(<<[id |-> 7, slug |-> <<"patch-a">>]>>)}}
    \cup {Response("list", s, l, Undecodable) :
            s \in ErrorStatuses, l \in {NoHeader, Link(<<"next">>)}}

DetailResponses ==
    {Response("detail", 200, NoHeader, b) : b \in MetaBodies \cup {Undecodable}}
    \cup {Response("detail", s, NoHeader, Undecodable) : s \in ErrorStatuses}

AssetResponses ==
    {Response("asset", 200, NoHeader, b) : b \in AssetBodies}
    \cup {Response("asset", s, NoHeader, Body(<<1, 240, 2, 247, 3>>)) :
            s \in ErrorStatuses}

\* The answers to the request that main() is waiting on. The catalog is
\* finite: no page from MaxPages on advertises a next page.
Outcomes ==
    CASE pc = "list"   -> {NetworkError("list")} \cup
                          {r \in ListResponses :
                              AdvertisesNext(r.link) => page < MaxPages}
      [] pc = "detail" -> {NetworkError("detail")} \cup DetailResponses
      [] pc = "asset"  -> {NetworkError("asset")} \cup AssetResponses
      [] OTHER         -> {}

(***************************************************************************)
(* The retrying client: RetryTransientMiddleware with                      *)
(* ExponentialBackoff::builder().build_with_max_retries(5)                 *)
(***************************************************************************)
MAX_RETRIES == 5

\* the middleware's default classification of one attempt's outcome
Retryable(o) ==
    IF o.kind = "error" THEN "transient"
    ELSE IF o.status >= 500 /\ o.status <= 599 THEN "transient"
    ELSE IF o.status >= 400 /\ o.status <= 499 /\ o.status \notin {408, 429}
         THEN "fatal"
    ELSE IF o.status >= 200 /\ o.status <= 299 THEN "success"
    ELSE IF o.status \in {408, 429} THEN "transient"
    ELSE "fatal"

\* RetryPolicy::should_retry(n_past_retries)
should_retry(n) == n < MAX_RETRIES

\* the position main() resumes at when the request it awaits returns
Resume(at) ==
    CASE at = "list" -> "list_done"
      [] at = "detail" -> "detail_done"
      [] at = "asset" -> "asset_done"

InFlight == pc \in {"list", "detail", "asset"}

\* one attempt fails transiently and the policy grants another one
Retry ==
    /\ InFlight
    /\ \E o \in Outcomes :
          /\ Retryable(o) = "transient"
          /\ should_retry(attempt)
    /\ attempt' = attempt + 1
    /\ UNCHANGED <<overwrite, platform, fs, pc, page, more, patches, cur,
                   result, requested, turned, error>>
    /\ UNCHANGED <<filterVars, extVars>>

\* the middleware hands the outcome of the last attempt to the caller: a
\* success, a failure that is not transient, or a transient failure when
\* the policy grants no further attempt; the retry counter is local to the
\* call and is gone with it
Return ==
    /\ InFlight
    /\ \E o \in Outcomes :
          /\ (Retryable(o) = "transient" => ~should_retry(attempt))
          /\ result' = o
    /\ pc' = Resume(pc)
    /\ attempt' = 0
    /\ UNCHANGED <<overwrite, platform, fs, page, more, patches, cur,
                   requested, turned, error>>
    /\ UNCHANGED <<filterVars, extVars>>

(***************************************************************************)
(* PagedPatches                                                            *)
(***************************************************************************)
\* parse_link_header::parse_with_rel: the map from rel to link, or an error
\* when a link-value does not parse
parse_with_rel(links) ==
    IF \E i \in 1..Len(links) : links[i] = "bad"
    THEN Err("invalid Link header")
    ELSE Ok({links[i] : i \in 1..Len(links)})

\* fn has_next(&self, headers)
has_next_lenient(link) ==
    IF ~link.present THEN Ok(FALSE)
    ELSE IF ~link.ascii THEN Ok(FALSE)
    ELSE IF ~parse_with_rel(link.links).ok THEN Ok(FALSE)
    ELSE Ok("next" \in parse_with_rel(link.links).val)
has_next(link) ==
    IF ~link.present THEN Err("missing Link header")
    ELSE IF ~link.ascii THEN Err("Link header is not visible ASCII")
    ELSE IF ~parse_with_rel(link.links).ok THEN parse_with_rel(link.links)
    ELSE Ok("next" \in parse_with_rel(link.links).val)

\* async fn get_patches_page(&self, request): send, has_next(headers), json
get_patches_page(res) ==
    IF res.kind = "error" THEN Err("request failed")
    ELSE IF ~has_next(res.link).ok THEN has_next(res.link)
    ELSE IF ~res.body.decodable THEN Err("error decoding response body")
    ELSE Ok([patches |-> res.body.val, has_next |-> has_next(res.link).val])

\* turn_page: request.page += 1 when the page has a next one
next_page_stay(p, hasNext) == p
next_page(p, hasNext) == IF hasNext THEN p + 1 ELSE p

\* TurnedPage::next keeps the stream going, TurnedPage::last ends it
stream_continues_always(hasNext) == TRUE
stream_continues(hasNext) == hasNext

(***************************************************************************)
(* main()                                                                  *)
(***************************************************************************)
\* a file of the output directory: None when it does not exist
exists(filename) == fs[filename].some

\* the file names the entries of the catalog can be written to
TargetFilenames(ext) == {target_filename(slug, ext) : slug \in Slugs}

\* files found in the output directory when the run starts
OldContent == <<9, 9>>

NoEntry == [patch |-> [id |-> 0, slug |-> <<>>], filename |-> <<>>,
            outcome |-> "none", sent |-> {}, url |-> "", before |-> None]

\* if filename.exists() { if args.overwrite { .. } else { continue } }
retains_never(found, ow) == FALSE
retains(found, ow) == found /\ ~ow

\* patch.id.as_u64()
as_u64(id) == IF id >= 0 THEN Some(id) ELSE None

\* if extension == "syx" { if let Some(filtered) = sysex_filter(&buf) { buf = filtered } }
normalised_everywhere(ext, buf) ==
    IF sysex_filter(buf).some THEN sysex_filter(buf).val ELSE buf
normalised(ext, buf) ==
    IF ext = <<"syx">>
    THEN IF sysex_filter(buf).some THEN sysex_filter(buf).val ELSE buf
    ELSE buf

\* the bytes write_all can leave behind when it fails part-way
Prefixes(buf) == {SubSeq(buf, 1, n) : n \in 0..(Len(buf) - 1)}

\* has_extension is not being applied on its own
ExtIdle ==
    /\ fname = <<>>
    /\ fext = <<>>
    /\ matches = FALSE
    /\ hpc = "idle"

Init ==
    /\ overwrite \in BOOLEAN
    /\ platform \in RunPlatforms
    /\ fs \in [TargetFilenames(PlatformTable(platform).ext) ->
                  {None, Some(OldContent)}]
    /\ pc = "pager"
    /\ page = 1
    /\ more = TRUE
    /\ patches = <<>>
    /\ cur = NoEntry
    /\ attempt = 0
    /\ result = NoResult
    /\ requested = <<>>
    /\ turned = <<>>
    /\ error = ""
    /\ input = <<>>
    /\ output = None
    /\ reoutput = None
    /\ fpc = "idle"
    /\ ExtIdle

\* pager.try_next() with a page left to turn: turn_page sends the list request
TryNext ==
    /\ pc = "pager"
    /\ more
    /\ pc' = "list"
    /\ attempt' = 0
    /\ result' = NoResult
    /\ requested' = Append(requested, page)
    /\ UNCHANGED <<overwrite, platform, fs, page, more, patches, cur, turned,
                   error>>
    /\ UNCHANGED <<filterVars, extVars>>

\* pager.try_next() after the last page: the stream is over, main returns Ok(())
Finish ==
    /\ pc = "pager"
    /\ ~more
    /\ pc' = "done"
    /\ UNCHANGED <<overwrite, platform, fs, page, more, patches, cur, attempt,
                   result, requested, turned, error>>
    /\ UNCHANGED <<filterVars, extVars>>

\* main() returns the error e; the batch is dropped
Fail(e) ==
    /\ pc' = "failed"
    /\ error' = e
    /\ patches' = <<>>

\* turn_page after the list request returned: the page fetch failed
TurnPageErr ==
    /\ pc = "list_done"
    /\ ~get_patches_page(result).ok
    /\ Fail(get_patches_page(result).val)
    /\ UNCHANGED <<overwrite, platform, fs, page, more, cur, attempt, result,
                   requested, turned>>
    /\ UNCHANGED <<filterVars, extVars>>

\* turn_page after the list request returned: the batch is yielded
TurnPageOk ==
    /\ pc = "list_done"
    /\ get_patches_page(result).ok
    /\ LET response == get_patches_page(result).val
       IN  /\ patches' = response.patches
           /\ page' = next_page(page, response.has_next)
           /\ more' = stream_continues(response.has_next)
           /\ turned' = Append(turned,
                                [page |-> page,
                                 has_next |-> response.has_next,
                                 advertised |-> AdvertisesNext(result.link)])
    /\ pc' = "entry"
    /\ cur' = NoEntry
    /\ UNCHANGED <<overwrite, platform, fs, attempt, result, requested, error>>
    /\ UNCHANGED <<filterVars, extVars>>

\* the for loop is through the batch
EndOfBatch_early ==
    /\ pc = "entry"
    /\ pc' = "pager"
    /\ cur' = NoEntry
    /\ result' = NoResult
    /\ UNCHANGED <<overwrite, platform, fs, page, more, patches, attempt,
                   requested, turned, error>>
    /\ UNCHANGED <<filterVars, extVars>>
EndOfBatch ==
    /\ pc = "entry"
    /\ patches = <<>>
    /\ pc' = "pager"
    /\ cur' = NoEntry
    /\ result' = NoResult
    /\ UNCHANGED <<overwrite, platform, fs, page, more, patches, attempt,
                   requested, turned, error>>
    /\ UNCHANGED <<filterVars, extVars>>

Entry(patch) ==
    [patch |-> patch,
     filename |-> target_filename(patch.slug, extension),
     outcome |-> "pending", sent |-> {}, url |-> "",
     before |-> fs[target_filename(patch.slug, extension)]]

\* the for loop takes an entry whose file exists and is retained
EntryRetained ==
    /\ pc = "entry"
    /\ patches # <<>>
    /\ LET e == Entry(Head(patches))
       IN  /\ retains(exists(e.filename), overwrite)
           /\ cur' = [e EXCEPT !.outcome = "retained"]
    /\ patches' = Tail(patches)
    /\ result' = NoResult
    /\ UNCHANGED <<overwrite, platform, fs, pc, page, more, attempt, requested,
                   turned, error>>
    /\ UNCHANGED <<filterVars, extVars>>

\* the for loop takes an entry whose id is no unsigned integer
EntryBadId ==
    /\ pc = "entry"
    /\ patches # <<>>
    /\ LET e == Entry(Head(patches))
       IN  /\ ~retains(exists(e.filename), overwrite)
           /\ ~as_u64(e.patch.id).some
           /\ cur' = [e EXCEPT !.outcome = "error"]
    /\ result' = NoResult
    /\ Fail("expected unsigned patch id")
    /\ UNCHANGED <<overwrite, platform, fs, page, more, attempt, requested,
                   turned>>
    /\ UNCHANGED <<filterVars, extVars>>

\* the for loop takes an entry and get_patch_metadata sends the detail request
EntryFetch ==
    /\ pc = "entry"
    /\ patches # <<>>
    /\ LET e == Entry(Head(patches))
       IN  /\ ~retains(exists(e.filename), overwrite)
           /\ as_u64(e.patch.id).some
           /\ cur' = [e EXCEPT !.sent = {"detail"}]
    /\ patches' = Tail(patches)
    /\ result' = NoResult
    /\ pc' = "detail"
    /\ attempt' = 0
    /\ UNCHANGED <<overwrite, platform, fs, page, more, requested, turned, error>>
    /\ UNCHANGED <<filterVars, extVars>>

\* async fn get_patch_metadata: send, then json::<PatchMetaData>
get_patch_metadata(res) ==
    IF res.kind = "error" THEN Err("request failed")
    ELSE IF ~res.body.decodable THEN Err("error decoding response body")
    ELSE Ok([files |-> res.body.val])

\* async fn get_patch_bytes: send, then bytes
get_patch_bytes(res) ==
    IF res.kind = "error" THEN Err("request failed")
    ELSE Ok(res.body.val)

\* get_patch_metadata(..).await? fails
MetadataErr ==
    /\ pc = "detail_done"
    /\ ~get_patch_metadata(result).ok
    /\ Fail(get_patch_metadata(result).val)
    /\ result' = NoResult
    /\ cur' = [cur EXCEPT !.outcome = "error"]
    /\ UNCHANGED <<overwrite, platform, fs, page, more, attempt, requested,
                   turned>>
    /\ UNCHANGED <<filterVars, extVars>>

\* &metadata.files[0] on an empty Vec: the index is out of bounds, main panics
MetadataNoFiles_skip ==
    /\ pc = "detail_done"
    /\ get_patch_metadata(result).ok
    /\ get_patch_metadata(result).val.files = <<>>
    /\ pc' = "entry"
    /\ cur' = [cur EXCEPT !.outcome = "skipped"]
    /\ UNCHANGED <<overwrite, platform, fs, page, more, patches, attempt,
                   result, requested, turned, error>>
    /\ UNCHANGED <<filterVars, extVars>>
MetadataNoFiles ==
    /\ pc = "detail_done"
    /\ get_patch_metadata(result).ok
    /\ get_patch_metadata(result).val.files = <<>>
    /\ pc' = "panicked"
    /\ error' = "index out of bounds"
    /\ patches' = <<>>
    /\ cur' = [cur EXCEPT !.outcome = "error"]
    /\ UNCHANGED <<overwrite, platform, fs, page, more, attempt, result,
                   requested, turned>>
    /\ UNCHANGED <<filterVars, extVars>>

\* the first file has another extension: println!("Skipping file"); continue
MetadataSkip ==
    /\ pc = "detail_done"
    /\ get_patch_metadata(result).ok
    /\ get_patch_metadata(result).val.files # <<>>
    /\ LET patch_file == get_patch_metadata(result).val.files[1]
       IN  ~has_extension(patch_file.filename, extension)
    /\ cur' = [cur EXCEPT !.outcome = "skipped"]
    /\ pc' = "entry"
    /\ UNCHANGED <<overwrite, platform, fs, page, more, patches, attempt,
                   result, requested, turned, error>>
    /\ UNCHANGED <<filterVars, extVars>>

\* the first file has the extension: get_patch_bytes sends the asset request
MetadataFetch ==
    /\ pc = "detail_done"
    /\ get_patch_metadata(result).ok
    /\ get_patch_metadata(result).val.files # <<>>
    /\ LET patch_file == get_patch_metadata(result).val.files[1]
       IN  /\ has_extension(patch_file.filename, extension)
           /\ cur' = [cur EXCEPT !.url = patch_file.url,
                                 !.sent = cur.sent \cup {"asset"}]
    /\ pc' = "asset"
    /\ attempt' = 0
    /\ UNCHANGED <<overwrite, platform, fs, page, more, patches, result,
                   requested, turned, error>>
    /\ UNCHANGED <<filterVars, extVars>>

\* get_patch_bytes(..).await? fails
BytesErr_truncated ==
    /\ pc = "asset_done"
    /\ ~get_patch_bytes(result).ok
    /\ fs' = [fs EXCEPT ![cur.filename] = Some(<<>>)]
    /\ Fail(get_patch_bytes(result).val)
    /\ result' = NoResult
    /\ cur' = [cur EXCEPT !.outcome = "error"]
    /\ UNCHANGED <<overwrite, platform, page, more, attempt, requested, turned>>
    /\ UNCHANGED <<filterVars, extVars>>
BytesErr ==
    /\ pc = "asset_done"
    /\ ~get_patch_bytes(result).ok
    /\ Fail(get_patch_bytes(result).val)
    /\ result' = NoResult
    /\ cur' = [cur EXCEPT !.outcome = "error"]
    /\ UNCHANGED <<overwrite, platform, fs, page, more, attempt, requested,
                   turned>>
    /\ UNCHANGED <<filterVars, extVars>>

\* File::create(&filename)? fails: nothing is created or truncated
CreateErr ==
    /\ pc = "asset_done"
    /\ get_patch_bytes(result).ok
    /\ Fail("File::create failed")
    /\ result' = NoResult
    /\ cur' = [cur EXCEPT !.outcome = "error"]
    /\ UNCHANGED <<overwrite, platform, fs, page, more, attempt, requested,
                   turned>>
    /\ UNCHANGED <<filterVars, extVars>>

\* File::create succeeds, file.write_all(&buf)? fails part-way
WriteErr ==
    /\ pc = "asset_done"
    /\ get_patch_bytes(result).ok
    /\ LET buf == normalised(extension, get_patch_bytes(result).val)
       IN  \E written \in Prefixes(buf) :
              fs' = [fs EXCEPT ![cur.filename] = Some(written)]
    /\ Fail("write_all failed")
    /\ result' = NoResult
    /\ cur' = [cur EXCEPT !.outcome = "error"]
    /\ UNCHANGED <<overwrite, platform, page, more, attempt, requested, turned>>
    /\ UNCHANGED <<filterVars, extVars>>

\* the file is created (or truncated) and the buffer is written to it
WriteFile ==
    /\ pc = "asset_done"
    /\ get_patch_bytes(result).ok
    /\ LET buf == normalised(extension, get_patch_bytes(result).val)
       IN  fs' = [fs EXCEPT ![cur.filename] = Some(buf)]
    /\ cur' = [cur EXCEPT !.outcome = "written"]
    /\ pc' = "entry"
    /\ UNCHANGED <<overwrite, platform, page, more, patches, attempt, result,
                   requested, turned, error>>
    /\ UNCHANGED <<filterVars, extVars>>

Next ==
    \/ TryNext
    \/ Finish
    \/ Retry
    \/ Return
    \/ TurnPageErr
    \/ TurnPageOk
    \/ EndOfBatch
    \/ EntryRetained
    \/ EntryBadId
    \/ EntryFetch
    \/ MetadataErr
    \/ MetadataNoFiles
    \/ MetadataSkip
    \/ MetadataFetch
    \/ BytesErr
    \/ CreateErr
    \/ WriteErr
    \/ WriteFile

Spec == Init /\ [][Next]_vars

(***************************************************************************)
(* sysex_filter applied on its own, to every buffer up to MaxBufLen over   *)
(* FilterBytes, and then to its own output                                 *)
(***************************************************************************)
FilterBytes == {1, 2, 3, 240, 247, 248}
Buffers == SeqsUpTo(FilterBytes, MaxBufLen)

MainIdle ==
    /\ overwrite = FALSE
    /\ platform = "MerisLvx"
    /\ fs = [f \in TargetFilenames(<<"syx">>) |-> None]
    /\ pc = "idle"
    /\ page = 1
    /\ more = TRUE
    /\ patches = <<>>
    /\ cur = NoEntry
    /\ attempt = 0
    /\ result = NoResult
    /\ requested = <<>>
    /\ turned = <<>>
    /\ error = ""

FilterInit ==
    /\ MainIdle
    /\ input \in Buffers
    /\ output = None
    /\ reoutput = None
    /\ fpc = "start"
    /\ ExtIdle

\* sysex_filter(&buf)
Filter ==
    /\ fpc = "start"
    /\ output' = sysex_filter(input)
    /\ fpc' = "filtered"
    /\ UNCHANGED <<input, reoutput>>
    /\ UNCHANGED <<mainVars, extVars>>

\* sysex_filter applied to the buffer a match was turned into
Refilter ==
    /\ fpc = "filtered"
    /\ output.some
    /\ reoutput' = sysex_filter(output.val)
    /\ fpc' = "refiltered"
    /\ UNCHANGED <<input, output>>
    /\ UNCHANGED <<mainVars, extVars>>

FilterNext ==
    \/ Filter
    \/ Refilter

FilterSpec == FilterInit /\ [][FilterNext]_vars

(***************************************************************************)
(* has_extension applied on its own, to every file name of up to           *)
(* MaxNameLen tokens and to the extensions of the platform table's kind    *)
(***************************************************************************)
NameTokens == {DOT, "basename", "tar", "gz", "syx", "SYX"}
Filenames == SeqsUpTo(NameTokens, MaxNameLen)
Extensions == {<<"syx">>, <<"bin">>, <<"gz">>}

\* sysex_filter is not being applied on its own
FilterIdle ==
    /\ input = <<>>
    /\ output = None
    /\ reoutput = None
    /\ fpc = "idle"

ExtInit ==
    /\ MainIdle
    /\ FilterIdle
    /\ fname \in Filenames
    /\ fext \in Extensions
    /\ matches = FALSE
    /\ hpc = "start"

\* has_extension(filename, extension)
HasExtension ==
    /\ hpc = "start"
    /\ matches' = has_extension(fname, fext)
    /\ hpc' = "done"
    /\ UNCHANGED <<fname, fext>>
    /\ UNCHANGED <<mainVars, filterVars>>

ExtNext == HasExtension

ExtSpec == ExtInit /\ [][ExtNext]_vars

(***************************************************************************)
(* Properties of sysex_filter, checked under FilterSpec                    *)
(***************************************************************************)
\* the positions of the byte b in buf
Occurrences(buf, b) == {i \in 1..Len(buf) : buf[i] = b}

\* buf holds exactly one frame: one 0xF0, one 0xF7, the 0xF0 first
HoldsOneFrame(buf) ==
    /\ Cardinality(Occurrences(buf, 240)) = 1
    /\ Cardinality(Occurrences(buf, 247)) = 1
    /\ \A i \in Occurrences(buf, 240) : \A j \in Occurrences(buf, 247) : i < j

\* the frame of such a buffer, and the bytes before it
FrameOf(buf) ==
    SubSeq(buf, CHOOSE i \in Occurrences(buf, 240) : TRUE,
                CHOOSE j \in Occurrences(buf, 247) : TRUE)
LeadOf(buf) == SubSeq(buf, 1, (CHOOSE i \in Occurrences(buf, 240) : TRUE) - 1)

\* C2, as stated: for every buffer that holds exactly one well-formed frame
\* with extra bytes before and/or after it, sysex_filter returns exactly
\* the frame, whatever the extra bytes are.
C2_AnyExtraBytes ==
    (fpc # "start" /\ HoldsOneFrame(input) /\ Len(FrameOf(input)) < Len(input))
        => output = Some(FrameOf(input))

\* C2, amended: for every buffer that holds exactly one well-formed frame
\* with extra bytes before and/or after it, and in which no byte before the
\* frame is >= 0xF0, sysex_filter returns exactly the frame: the leading
\* and the trailing bytes are dropped.
C2_FrameExtracted ==
    (/\ fpc # "start"
     /\ HoldsOneFrame(input)
     /\ Len(FrameOf(input)) < Len(input)
     /\ \A i \in 1..Len(LeadOf(input)) : LeadOf(input)[i] < 240)
        => output = Some(FrameOf(input))

\* C2 witness: a frame with a byte before and a byte after it was extracted
C2_Witness ==
    /\ fpc = "filtered"
    /\ input = <<1, 240, 2, 247, 3>>
    /\ output = Some(<<240, 2, 247>>)

\* C6: when the frame sysex_filter matches is the whole buffer (the buffer
\* starts with 0xF0 and its first 0xF7 is its last byte), the answer is no
\* match; so it is for [0xF0, 0xF7] and for the empty buffer.
C6_WholeBufferIsNoMatch ==
    /\ (/\ fpc # "start"
        /\ Len(input) >= 2
        /\ input[1] = 240
        /\ Occurrences(input, 247) = {Len(input)})
          => output = None
    /\ (fpc # "start" /\ input \in {<<>>, <<240, 247>>}) => output = None

\* C6 witness: [0xF0, 0xF7] was filtered
C6_Witness ==
    /\ fpc = "filtered"
    /\ input = <<240, 247>>
    /\ output = None

\* C7: sysex_filter applied to a match it returned answers no match.
C7_Idempotent == fpc = "refiltered" => (output.some /\ reoutput = None)

\* C7 witness: a match was filtered again
C7_Witness ==
    /\ fpc = "refiltered"
    /\ output.some
    /\ Len(output.val) < Len(input)

\* C8: a buffer with no byte >= 0xF0 gives no match.
C8_NoSystemByteNoMatch ==
    (fpc # "start" /\ \A i \in 1..Len(input) : input[i] < 240) => output = None

\* C8 witness: a non-empty buffer of data bytes was filtered
C8_Witness ==
    /\ fpc = "filtered"
    /\ input = <<1, 2, 3>>
    /\ output = None

(***************************************************************************)
(* Properties of the run of main(), checked under Spec                     *)
(***************************************************************************)
Last(seq) == seq[Len(seq)]

\* the bytes main() received for the current entry's asset
Downloaded == result.body.val

\* C1: the pager yields one batch per page, in page order, for as long as
\* the page before advertised rel="next"; it stops at the first page N that
\* advertises no next relation, page N+1 is never requested, and main()
\* returns only after that page.
C1_PaginationTerminates ==
    /\ \A k \in 1..Len(turned) : turned[k].page = k
    /\ \A k \in 1..Len(requested) : requested[k] = k
    /\ \A k \in 1..(Len(turned) - 1) : turned[k].advertised
    /\ Len(turned) <= Len(requested)
    /\ Len(requested) <= Len(turned) + 1
    /\ (turned # <<>> /\ ~Last(turned).advertised)
          => (Len(requested) = Len(turned) /\ ~more /\ pc # "list")
    /\ pc = "done" => (turned # <<>> /\ ~Last(turned).advertised)

\* C1 witness: a catalog of two pages was read to its end
C1_Witness ==
    /\ pc = "done"
    /\ Len(turned) = 2
    /\ turned[1].advertised
    /\ ~turned[2].advertised
    /\ requested = <<1, 2>>

\* C3: the file written for an entry holds the normalised download: on a
\* syx platform the range sysex_filter extracts when it matches and the
\* downloaded bytes when it does not; on any other platform the downloaded
\* bytes.
C3_WrittenIsNormalised ==
    cur.outcome = "written" =>
        /\ result.to = "asset"
        /\ fs[cur.filename] =
              Some(IF extension = <<"syx">> /\ sysex_filter(Downloaded).some
                   THEN sysex_filter(Downloaded).val
                   ELSE Downloaded)
        /\ (extension = <<"syx">> /\ Downloaded = <<1, 240, 2, 247, 3>>)
              => fs[cur.filename] = Some(<<240, 2, 247>>)
        /\ (extension = <<"syx">> /\ Downloaded = <<240, 247>>)
              => fs[cur.filename] = Some(<<240, 247>>)
        /\ extension # <<"syx">> => fs[cur.filename] = Some(Downloaded)

\* C3 witness: on a syx platform [01 F0 02 F7 03] was written as [F0 02 F7]
C3_Witness ==
    /\ cur.outcome = "written"
    /\ extension = <<"syx">>
    /\ Downloaded = <<1, 240, 2, 247, 3>>
    /\ fs[cur.filename] = Some(<<240, 2, 247>>)

\* the metadata main() holds names a first file whose final extension is
\* not the platform's
FirstFileMismatch ==
    /\ result.to = "detail"
    /\ result.kind = "response"
    /\ result.body.decodable
    /\ result.body.val # <<>>
    /\ <<Last(result.body.val[1].filename)>> # extension

\* C4: once main() has looked at metadata whose first file has another
\* extension than the platform's, the entry is skipped: its file is as it
\* was before the entry, no asset request was sent for it, no error is
\* raised and main() is back at the for loop, ready for the next entry.
C4_MismatchSkipsEntry ==
    (FirstFileMismatch /\ pc # "detail_done") =>
        /\ pc = "entry"
        /\ cur.outcome = "skipped"
        /\ cur.sent = {"detail"}
        /\ fs[cur.filename] = cur.before
        /\ error = ""

\* C4 witness: patch.bin was skipped on a syx platform, nothing was written
C4_Witness ==
    /\ cur.outcome = "skipped"
    /\ extension = <<"syx">>
    /\ result.body.val[1].filename = <<"patch", DOT, "bin">>
    /\ ~fs[cur.filename].some
    /\ pc = "entry"

\* C5: an entry whose file exists is, without overwrite, retained before
\* any request is sent for it: the file is unchanged and main() is back at
\* the for loop; with overwrite its detail request is sent (when its id is
\* an unsigned integer), and the file it writes holds the new bytes only.
C5_ExistingFileRetained ==
    /\ (cur.outcome # "none" /\ cur.before.some /\ ~overwrite) =>
          /\ cur.outcome = "retained"
          /\ cur.sent = {}
          /\ fs[cur.filename] = cur.before
          /\ pc = "entry"
          /\ error = ""
    /\ (cur.outcome # "none" /\ cur.before.some /\ overwrite) =>
          /\ cur.outcome # "retained"
          /\ cur.patch.id >= 0 => "detail" \in cur.sent
          /\ cur.outcome = "written" =>
                fs[cur.filename] = Some(normalised(extension, Downloaded))
    /\ cur.outcome = "retained" => (cur.before.some /\ ~overwrite)

\* C5 witness: an existing file was retained
C5_Witness ==
    /\ cur.outcome = "retained"
    /\ ~overwrite
    /\ cur.before = Some(OldContent)
    /\ fs[cur.filename] = Some(OldContent)

\* the Link header of the list response is absent or does not parse
LinkBroken(link) ==
    \/ ~link.present
    \/ ~link.ascii
    \/ \E i \in 1..Len(link.links) : link.links[i] = "bad"

\* C9: once turn_page has looked at a list response whose Link header is
\* absent or does not parse, main() has failed, whatever the body: no batch
\* was yielded for the page, no entry is taken and nothing further happens;
\* and every page that was turned has a continuation flag that is true
\* exactly when the header named a next relation.
C9_LinkHeaderDecides ==
    /\ (/\ result.to = "list"
        /\ result.kind = "response"
        /\ LinkBroken(result.link)
        /\ pc # "list_done") =>
          /\ pc = "failed"
          /\ error # ""
          /\ cur = NoEntry
          /\ patches = <<>>
          /\ Len(turned) = Len(requested) - 1
          /\ ~ENABLED Next
    /\ \A k \in 1..Len(turned) : turned[k].has_next = turned[k].advertised

\* C9 witness: page 2 came without a Link header and with a valid body
C9_Witness ==
    /\ pc = "failed"
    /\ error = "missing Link header"
    /\ result.to = "list"
    /\ result.status = 200
    /\ result.body.decodable
    /\ result.body.val # <<>>
    /\ requested = <<1, 2>>
    /\ Len(turned) = 1

\* a 4xx status other than 408 and 429
IsClientError(status) ==
    status >= 400 /\ status <= 499 /\ status \notin {408, 429}

\* C10, as stated: once main() has looked at a response with a 4xx status
\* (rate limiting aside), it has failed, and nothing of the response was
\* written.
C10_ClientErrorIsFatal ==
    (/\ result.kind = "response"
     /\ IsClientError(result.status)
     /\ pc \notin {"list_done", "detail_done", "asset_done"})
        => pc = "failed"

\* the metadata main() holds has no files
NoFilesInMetadata ==
    /\ result.to = "detail"
    /\ result.kind = "response"
    /\ result.body.decodable
    /\ result.body.val = <<>>

\* the run is over without main() having returned Ok(())
Aborted == pc \in {"failed", "panicked"} /\ error # "" /\ ~ENABLED Next

\* C11: once main() has looked at metadata with an empty files sequence,
\* the run is aborted with an error (the index panics): the entry's file is
\* as it was, no asset request was sent, the rest of the batch is dropped
\* and no step follows.
C11_EmptyFilesAborts ==
    (NoFilesInMetadata /\ pc # "detail_done") =>
        /\ Aborted
        /\ cur.outcome = "error"
        /\ cur.sent = {"detail"}
        /\ fs[cur.filename] = cur.before
        /\ patches = <<>>

\* C11 witness: the run ended on empty files with a further page to turn
C11_Witness ==
    /\ NoFilesInMetadata
    /\ pc = "panicked"
    /\ more
    /\ ~fs[cur.filename].some

\* the request ended in a transient failure: a network error, a 5xx
\* status, or a 408 or 429 status
IsTransientFailure(r) ==
    \/ r.kind = "error"
    \/ r.kind = "response" /\ (r.status >= 500 \/ r.status \in {408, 429})

\* C12, as stated: a request is attempted at most 1 + 5 times, its retry
\* counter is gone when it returns, and once main() has looked at a request
\* whose last attempt still failed transiently, the run has failed.
C12_RetriesBoundedThenFatal ==
    /\ attempt >= 0
    /\ attempt <= 5
    /\ ~InFlight => attempt = 0
    /\ (IsTransientFailure(result)
        /\ pc \notin {"list_done", "detail_done", "asset_done"})
          => pc = "failed"

\* C13: the list requests carry the page numbers 1, 2, 3, ...: the first
\* one is for page 1, each later one for the page after the one before, the
\* request in flight is the last one recorded, and no step changes the
\* platform the requests are built for.
C13_PagesInSequence ==
    /\ [](/\ requested # <<>> => requested[1] = 1
          /\ \A k \in 1..(Len(requested) - 1) :
                requested[k + 1] = requested[k] + 1
          /\ pc = "list" => Last(requested) = page)
    /\ [][platform' = platform]_vars

\* C13 witness: the request for page 2 is in flight
C13_Witness ==
    /\ pc = "list"
    /\ Len(requested) = 2
    /\ page = 2

(***************************************************************************)
(* Properties of has_extension, checked under ExtSpec                      *)
(***************************************************************************)
\* the positions of the dots of a file name
DotsOf(name) == {i \in 1..Len(name) : name[i] = "."}

\* the text after the last dot of a name that has a dot
AfterLastDot(name) ==
    LET d == CHOOSE i \in DotsOf(name) : \A j \in DotsOf(name) : j <= i
    IN  [at |-> d, text |-> SubSeq(name, d + 1, Len(name))]

\* the four cases of has_extension_test
ExtensionExamples ==
    /\ (fname = <<"basename">> /\ fext = <<"bin">>) => ~matches
    /\ (fname = <<"basename", ".", "syx">> /\ fext = <<"bin">>) => ~matches
    /\ (fname = <<"basename", ".", "syx">> /\ fext = <<"syx">>) => matches
    /\ (fname = <<"basename", ".", "tar", ".", "gz">> /\ fext = <<"gz">>)
          => matches

\* C14, as stated: has_extension is true exactly when the text after the
\* last dot of the file name is the expected extension.
C14_AfterLastDot ==
    hpc = "done" =>
        /\ matches = (DotsOf(fname) # {} /\ AfterLastDot(fname).text = fext)
        /\ ExtensionExamples

\* C14, amended: has_extension is true exactly when the file name has a
\* last dot that is not its first character and the text after that dot is
\* the expected extension, compared case-sensitively.
C14_FinalExtensionMatches ==
    hpc = "done" =>
        /\ matches = (/\ DotsOf(fname) # {}
                      /\ AfterLastDot(fname).at > 1
                      /\ AfterLastDot(fname).text = fext)
        /\ ExtensionExamples

\* C14 witness: basename.tar.gz has the extension gz
C14_Witness ==
    /\ hpc = "done"
    /\ fname = <<"basename", ".", "tar", ".", "gz">>
    /\ fext = <<"gz">>
    /\ matches

(***************************************************************************)
(* More properties of sysex_filter, checked under FilterSpec               *)
(***************************************************************************)
\* the positions of the bytes >= 0xF0 of a buffer
SystemBytesOf(buf) == {i \in 1..Len(buf) : buf[i] >= 240}

\* the position of the first byte >= 0xF0 of a buffer that has one
FirstSystemByte(buf) ==
    CHOOSE i \in SystemBytesOf(buf) : \A j \in SystemBytesOf(buf) : i <= j

\* the first byte >= 0xF0 is not 0xF0
StartsUnsupported(buf) ==
    SystemBytesOf(buf) # {} /\ buf[FirstSystemByte(buf)] # 240

\* the first byte >= 0xF0 is 0xF0 and no 0xF7 follows it
NeverEnds(buf) ==
    /\ SystemBytesOf(buf) # {}
    /\ buf[FirstSystemByte(buf)] = 240
    /\ \A i \in Occurrences(buf, 247) : i < FirstSystemByte(buf)

\* C15: a buffer whose first byte >= 0xF0 is not 0xF0, or whose 0xF0 is
\* followed by no 0xF7, gives no match, a later complete frame
\* notwithstanding, and the caller is left with the buffer as it was.
C15_UnsupportedOrOpenIsNoMatch ==
    (fpc = "filtered" /\ (StartsUnsupported(input) \/ NeverEnds(input))) =>
        /\ output = None
        /\ normalised(<<"syx">>, input) = input

\* C15 witness: an unsupported system byte ahead of a complete frame
C15_Witness ==
    /\ fpc = "filtered"
    /\ input = <<248, 240, 2, 247>>
    /\ output = None

\* C20: sysex_filter stays inside the buffer, and a match is a contiguous
\* part of the input, strictly shorter than it, that starts with 0xF0, ends
\* with its only 0xF7 and has no byte >= 0xF0 ahead of it in the input.
C20_MatchIsProperFrame ==
    fpc = "filtered" =>
        LET start == Position(input, 0, SystemMessages)
            last  == Position(input, start + 1, SysexEnds)
            end   == FrameEnd(start, last)
        IN  /\ start # NoPosition => start < Len(input)
            /\ (start # NoPosition /\ ~IsUnsupported(input[start + 1])
                    /\ last # NoPosition) =>
                  (start <= end /\ end <= Len(input))
            /\ output.some =>
                  /\ \E a \in 1..Len(input) : \E b \in a..Len(input) :
                        /\ output.val = SubSeq(input, a, b)
                        /\ \A i \in 1..(a - 1) : input[i] < 240
                  /\ Len(output.val) < Len(input)
                  /\ output.val[1] = 240
                  /\ Occurrences(output.val, 247) = {Len(output.val)}

\* C20 witness: a frame behind a data byte and ahead of a second 0xF7
C20_Witness ==
    /\ fpc = "filtered"
    /\ input = <<2, 240, 3, 247, 247>>
    /\ output = Some(<<240, 3, 247>>)

(***************************************************************************)
(* Properties of the target path and of the output files, checked under    *)
(* Spec                                                                    *)
(***************************************************************************)
\* C17: the target file name of an entry is its whole slug, a dot and the
\* platform extension, also for a slug that contains a dot.
C17_TargetIsSlugDotExtension ==
    cur.outcome # "none" =>
        cur.filename = cur.patch.slug \o <<".">> \o extension

\* a step creates, truncates or writes a file only when the metadata of the
\* current entry was fetched, its first file passed the extension check and
\* the asset request has returned its bytes; the file is the entry's own
WritesOnlyAfterDownload ==
    fs' # fs =>
        /\ pc = "asset_done"
        /\ cur.sent = {"detail", "asset"}
        /\ cur.url # ""
        /\ get_patch_bytes(result).ok
        /\ \A f \in DOMAIN fs : f # cur.filename => fs'[f] = fs[f]

\* the file at the target path of the current entry is as the entry found it
TargetKept == fs[cur.filename] = cur.before

\* C18, as stated: a file is created or truncated only after the metadata
\* fetch, the extension check and the asset download of the entry, and so
\* the file at the target path of an entry that was skipped or that aborted
\* the run is as the entry found it.
C18_SkipOrAbortKeepsFile ==
    /\ [](cur.outcome \in {"retained", "skipped", "error"} => TargetKept)
    /\ [][WritesOnlyAfterDownload]_vars

\* C18, amended: a file is created or truncated only after the metadata
\* fetch, the extension check and the asset download of the entry, and so
\* the file at the target path of an entry that was skipped, or that aborted
\* the run otherwise than by a failed write to the created file, is as the
\* entry found it; a failed write leaves a proper prefix of the buffer.
C18_SkipOrEarlyAbortKeepsFile ==
    /\ [](/\ cur.outcome \in {"retained", "skipped"} => TargetKept
          /\ (cur.outcome = "error" /\ error # "write_all failed")
                => TargetKept
          /\ (cur.outcome = "error" /\ error = "write_all failed")
                => fs[cur.filename].some)
    /\ [][WritesOnlyAfterDownload]_vars

\* C18 witness: with overwrite requested, the asset download of an entry
\* whose file exists failed and the run is over
C18_Witness ==
    /\ overwrite
    /\ pc = "failed"
    /\ cur.outcome = "error"
    /\ cur.sent = {"detail", "asset"}
    /\ cur.before = Some(OldContent)
    /\ error = "request failed"

\* a step leaves every file that exists as it is
ExistingFilesUntouched ==
    \A f \in DOMAIN fs : fs[f].some => fs'[f] = fs[f]

\* C19: without overwrite no step modifies a file that exists, be it there
\* from the start or written earlier in the run, so that a file found at
\* the start is never modified and no path is written twice; an entry whose
\* path was written for an earlier entry is retained.
C19_NoFileWrittenTwice ==
    /\ [][~overwrite => ExistingFilesUntouched]_vars
    /\ []((~overwrite /\ cur.outcome = "retained") =>
             (cur.before.some /\ fs[cur.filename] = cur.before))
    /\ []((~overwrite /\ cur.outcome \in {"pending", "skipped", "written"})
             => ~cur.before.some)

\* C19 witness: without overwrite, an entry of the second page was retained
\* because its path was written earlier in the run
C19_Witness ==
    /\ ~overwrite
    /\ Len(turned) = 2
    /\ cur.outcome = "retained"
    /\ fs[cur.filename] = Some(<<240, 2, 247>>)

(***************************************************************************)
(* Order of processing, checked under Spec                                 *)
(***************************************************************************)
\* the processing of the current entry is over, or there is no entry yet
EntryOver == cur.outcome \in {"none", "retained", "skipped", "written"}

\* a step that takes an entry takes the first of the entries left of the
\* batch, and only when the entry before it is over
TakesEntriesInOrder ==
    (pc = "entry" /\ patches' # patches) =>
        /\ EntryOver
        /\ cur'.patch = Head(patches)
        /\ patches' \in {Tail(patches), <<>>}

\* a step that yields a batch yields it as the server sent it, and no other
\* step adds entries to the batch
BatchAsReceived ==
    /\ (pc = "list_done" /\ patches' # patches) => patches' = result.body.val
    /\ (pc \notin {"list_done", "entry"} /\ patches' # patches) =>
          patches' = <<>>

\* a step that writes a file writes the file of the entry being processed
WritesCurrentEntry ==
    fs' # fs =>
        /\ cur.outcome = "pending"
        /\ \A f \in DOMAIN fs : f # cur.filename => fs'[f] = fs[f]

\* a list request is sent only when no entry of the batch is left and none
\* is being processed
NoPrefetch ==
    requested' # requested => (patches = <<>> /\ cur.outcome = "none")

\* C16: entries are processed one at a time in the order of the batch,
\* files are written for the entry being processed, and the next page is
\* requested only when the batch is through.
C16_SequentialInServerOrder ==
    /\ [][TakesEntriesInOrder /\ BatchAsReceived /\ WritesCurrentEntry
             /\ NoPrefetch]_vars
    /\ [](pc \in {"pager", "list", "list_done"} =>
             (patches = <<>> /\ cur.outcome = "none"))
    /\ [](pc \in {"detail", "detail_done", "asset", "asset_done"} =>
             cur.outcome = "pending")

\* C16 witness: the second page is requested after the batch of the first
\* page is through, an entry of it written
C16_Witness ==
    /\ pc = "list"
    /\ requested = <<1, 2>>
    /\ patches = <<>>
    /\ \E f \in DOMAIN fs : fs[f] = Some(<<248, 240, 2, 247>>)

====
